---- MODULE Spec2Model ----
(***************************************************************************)
(* Frame scheduler (GameLoop) and command pipeline (App::run) of           *)
(* scintillis, src/src/app.rs, with Quad::translate of src/src/graphics.rs.*)
(*                                                                         *)
(* Time is counted in milliseconds.  A frame rate (f32 in the source) is   *)
(* represented in hundredths of a frame per second: 59.94 is 5994.         *)
(***************************************************************************)
EXTENDS Integers, Naturals, Sequences, FiniteSets, TLC

VARIABLES
    pc,                \* position of the single thread
    target_fps,        \* config.frame_rate, in hundredths of a frame per second
    overflow_checks,   \* build profile: TRUE = arithmetic overflow panics
    clock,             \* what Instant::now() returns
    frame_interval,    \* GameLoop.frame_interval
    frame_count,       \* GameLoop.frame_count (u8)
    previous_instant,  \* GameLoop.previous_instant
    previous_second,   \* GameLoop.previous_second
    current_instant,   \* local of GameLoop::run
    throttler,         \* result of the last GameLoop::throttle call
    duration,          \* payload of FrameThrottler::Run, argument of the body
    keep_running,      \* value returned by the loop body
    printed,           \* value written by println!("FPS: {}") in this iteration, -1 if none
    events,            \* pending window events, in arrival order
    event,             \* what events.next() returned in this frame
    commands,          \* the Vec<Command> of App::run
    origin,            \* origin given to Quad::new
    position,          \* Quad.position
    arrived,           \* history: every event that arrived, in order
    applied,           \* history: every command popped, in order
    backlog,           \* history: most events ever pending when a frame pulled one
    pulls,             \* history: calls of process_events, one per run of the closure
    renders,           \* history: calls of render
    executed_at,       \* history: instant sampled for the last executed frame
    window_frames,     \* history: frames counted since the last FPS reset
    counted            \* history: frames of the window reported in this iteration, -1 if none

vars == <<pc, target_fps, overflow_checks, clock, frame_interval, frame_count,
          previous_instant, previous_second, current_instant, throttler,
          duration, keep_running, printed, events, event, commands, origin,
          position, arrived, applied, backlog, pulls, renders, executed_at,
          window_frames, counted>>

loopVars == <<frame_interval, frame_count, previous_instant, previous_second>>
appVars == <<events, event, commands, origin, position, arrived, applied,
            backlog>>
callVars == <<pulls, renders>>

----------------------------------------------------------------------------
(* Bounds of the model *)

MaxTime == 1500
MaxFrames == 258
MaxEvents == 3
MaxMoves == 2
MaxFpsInput == 6100
MaxNegFpsInput == 200

(* Program constants *)

Centi == 100
MillisPerSecond == 1000
OneSecond == 1000
U8Modulus == 256
I32Max == 2147483647
I32Min == -I32Max - 1
QuadStep == 32

(* Inputs *)

TickSteps == {500}
Oversleeps == {0, 500}
LoopFps == {-100, 0, 50, 100, 150, 200, 200000}
AppFps == {200}
FastFps == {25000}
NewFps == -MaxNegFpsInput..MaxFpsInput
CoordInputs == {I32Min, I32Min + 31, I32Min + 32, -32, 0, 32,
                I32Max - 32, I32Max - 31, I32Max}

Directions == {"Up", "Down", "Left", "Right"}
None == [type |-> "None", dir |-> "None"]
Quit == [type |-> "Quit", dir |-> "None"]
Move(d) == [type |-> "Move", dir |-> d]

Released(k) == [kind |-> "KeyboardInput", state |-> "Released", key |-> k]
Pressed(k) == [kind |-> "KeyboardInput", state |-> "Pressed", key |-> k]
Closed == [kind |-> "Closed", state |-> "None", key |-> "None"]
NoEvent == [kind |-> "None", state |-> "None", key |-> "None"]
Keys == {"Escape", "Up", "Down", "Left", "Right", "A"}
EventInputs == {Released(k) : k \in Keys} \cup {Pressed("Up"), Closed}

RunningPcs == {"loop", "body", "update", "render", "returned"}

----------------------------------------------------------------------------
(* GameLoop::new *)

\* `target_fps as u64`: truncation toward zero for a value in range; a
\* negative value is out of range for u64 and the cast is undefined in the
\* toolchain this crate builds with: it yields 0 or some huge value, and every
\* value above 1000 gives the same quotient as 1001.
CastU64(f) == IF f < 0 THEN {0, MillisPerSecond + 1} ELSE {f \div Centi}

New ==
    /\ pc = "new"
    /\ \E cast \in CastU64(target_fps) :
          IF cast = 0
          THEN /\ pc' = "panicked"
               /\ UNCHANGED <<clock, loopVars, executed_at>>
          ELSE /\ frame_interval' = MillisPerSecond \div cast
               /\ frame_count' = 0
               /\ previous_instant' = clock
               /\ \E d \in {0} \cup TickSteps :
                     /\ clock' = clock + d
                     /\ previous_second' = clock + d
               /\ executed_at' = clock
               /\ pc' = "loop"
    /\ UNCHANGED <<callVars, target_fps, overflow_checks, current_instant, throttler,
                   duration, keep_running, printed, appVars, window_frames,
                   counted>>

----------------------------------------------------------------------------
(* GameLoop::throttle and GameLoop::update_fps_display *)

\* throttle measuring from the FPS window anchor instead of the last frame.
throttle_from_second(cur) ==
    LET delta == cur - previous_second
    IN  IF delta < frame_interval
        THEN [tag |-> "Skip", sleep |-> frame_interval - delta, duration |-> 0]
        ELSE [tag |-> "Run", sleep |-> 0, duration |-> delta]

\* throttle passing the frame interval instead of the measured delta.
throttle_nominal_duration(cur) ==
    LET delta == cur - previous_instant
    IN  IF delta < frame_interval
        THEN [tag |-> "Skip", sleep |-> frame_interval - delta, duration |-> 0]
        ELSE [tag |-> "Run", sleep |-> 0, duration |-> frame_interval]

throttle(cur) ==
    LET delta == cur - previous_instant
    IN  IF delta < frame_interval
        THEN [tag |-> "Skip", sleep |-> frame_interval - delta, duration |-> 0]
        ELSE [tag |-> "Run", sleep |-> 0, duration |-> delta]

\* update_fps_display that moves the window without clearing the counter.
update_fps_display_keeping_count(cur) ==
    LET overflow == frame_count + 1 >= U8Modulus
        incremented == (frame_count + 1) % U8Modulus
    IN  IF overflow /\ overflow_checks
        THEN [panic |-> TRUE, frame_count |-> frame_count,
              previous_second |-> previous_second, printed |-> -1,
              reset |-> FALSE]
        ELSE IF cur - previous_second >= OneSecond
        THEN [panic |-> FALSE, frame_count |-> incremented,
              previous_second |-> cur, printed |-> incremented, reset |-> TRUE]
        ELSE [panic |-> FALSE, frame_count |-> incremented,
              previous_second |-> previous_second, printed |-> -1,
              reset |-> FALSE]

update_fps_display(cur) ==
    LET overflow == frame_count + 1 >= U8Modulus
        incremented == (frame_count + 1) % U8Modulus
    IN  IF overflow /\ overflow_checks
        THEN [panic |-> TRUE, frame_count |-> frame_count,
              previous_second |-> previous_second, printed |-> -1,
              reset |-> FALSE]
        ELSE IF cur - previous_second >= OneSecond
        THEN [panic |-> FALSE, frame_count |-> 0, previous_second |-> cur,
              printed |-> incremented, reset |-> TRUE]
        ELSE [panic |-> FALSE, frame_count |-> incremented,
              previous_second |-> previous_second, printed |-> -1,
              reset |-> FALSE]

----------------------------------------------------------------------------
(* GameLoop::run *)

\* The clock advances while the thread runs or is descheduled.
Tick ==
    /\ pc \in RunningPcs
    /\ \E d \in TickSteps :
          /\ clock + d <= MaxTime
          /\ clock' = clock + d
    /\ UNCHANGED <<callVars, pc, target_fps, overflow_checks, loopVars, current_instant,
                   throttler, duration, keep_running, printed, appVars,
                   executed_at, window_frames, counted>>

\* A throttle branch that also records the sampled instant as a frame.
RunSkip_advancing ==
    /\ pc = "loop"
    /\ LET t == throttle(clock)
       IN  /\ t.tag = "Skip"
           /\ current_instant' = clock
           /\ throttler' = "Skip"
           /\ \E over \in Oversleeps :
                 /\ clock + t.sleep + over <= MaxTime
                 /\ clock' = clock + t.sleep + over
    /\ previous_instant' = clock
    /\ printed' = -1
    /\ counted' = -1
    /\ UNCHANGED <<callVars, pc, target_fps, overflow_checks, frame_interval, frame_count,
                   previous_second, duration, keep_running, appVars,
                   executed_at, window_frames>>

\* A throttle branch that does not sleep (a spin-wait).
RunSkip_spinning ==
    /\ pc = "loop"
    /\ LET t == throttle(clock)
       IN  /\ t.tag = "Skip"
           /\ current_instant' = clock
           /\ throttler' = "Skip"
    /\ printed' = -1
    /\ counted' = -1
    /\ UNCHANGED <<callVars, pc, target_fps, overflow_checks, clock, loopVars,
                   duration, keep_running, appVars, executed_at, window_frames>>

\* One iteration that takes the throttle branch: sample, sleep, continue.
RunSkip ==
    /\ pc = "loop"
    /\ LET t == throttle(clock)
       IN  /\ t.tag = "Skip"
           /\ current_instant' = clock
           /\ throttler' = "Skip"
           /\ \E over \in Oversleeps :
                 /\ clock + t.sleep + over <= MaxTime
                 /\ clock' = clock + t.sleep + over
    /\ printed' = -1
    /\ counted' = -1
    /\ UNCHANGED <<callVars, pc, target_fps, overflow_checks, loopVars, duration,
                   keep_running, appVars, executed_at, window_frames>>

\* One iteration that takes the run branch, up to the call of the body.
RunFrame ==
    /\ pc = "loop"
    /\ window_frames < MaxFrames
    /\ LET t == throttle(clock)
       IN  /\ t.tag = "Run"
           /\ current_instant' = clock
           /\ throttler' = "Run"
           /\ duration' = t.duration
    /\ executed_at' = clock
    /\ event' = NoEvent
    /\ printed' = -1
    /\ counted' = -1
    /\ pc' = "body"
    /\ UNCHANGED <<callVars, target_fps, overflow_checks, clock, loopVars, keep_running,
                   events, commands, origin, position, arrived, applied,
                   backlog, window_frames>>

\* The body returned false: break.
LoopBreak ==
    /\ pc = "returned"
    /\ ~keep_running
    /\ pc' = "done"
    /\ UNCHANGED <<callVars, target_fps, overflow_checks, clock, loopVars,
                   current_instant, throttler, duration, keep_running, printed,
                   appVars, executed_at, window_frames, counted>>

\* The body returned true: lines 137-138.
LoopBookkeep ==
    /\ pc = "returned"
    /\ keep_running
    /\ LET u == update_fps_display(current_instant)
       IN  IF u.panic
           THEN /\ previous_instant' = current_instant
                /\ pc' = "panicked"
                /\ UNCHANGED <<frame_count, previous_second, printed,
                               window_frames, counted>>
           ELSE /\ previous_instant' = current_instant
                /\ frame_count' = u.frame_count
                /\ previous_second' = u.previous_second
                /\ printed' = u.printed
                /\ window_frames' = IF u.reset THEN 0 ELSE window_frames + 1
                /\ counted' = IF u.reset THEN window_frames + 1 ELSE -1
                /\ pc' = "loop"
    /\ UNCHANGED <<callVars, target_fps, overflow_checks, clock, frame_interval,
                   current_instant, throttler, duration, keep_running,
                   appVars, executed_at>>

\* An arbitrary FnMut(Duration) -> bool: it takes time and returns a bool.
LoopOperation ==
    /\ pc = "body"
    /\ \E b \in BOOLEAN : keep_running' = b
    /\ pc' = "returned"
    /\ UNCHANGED <<callVars, target_fps, overflow_checks, clock, loopVars,
                   current_instant, throttler, duration, printed, appVars,
                   executed_at, window_frames, counted>>


----------------------------------------------------------------------------
(* Quad::translate *)

\* `v -= 32` on an i32: panics on overflow when overflow checks are on,
\* wraps modulo 2^32 otherwise.
sub32(v) ==
    IF v < I32Min + QuadStep
    THEN [panic |-> overflow_checks, value |-> (v + I32Max) + (I32Max - QuadStep + 2)]
    ELSE [panic |-> FALSE, value |-> v - QuadStep]

\* `v += 32` on an i32.
add32(v) ==
    IF v > I32Max - QuadStep
    THEN [panic |-> overflow_checks, value |-> (v - I32Max) + (QuadStep - 2 - I32Max)]
    ELSE [panic |-> FALSE, value |-> v + QuadStep]

\* translate with the sign of the Up move slipped.
translate_up_adds(pos, direction) ==
    CASE direction = "Up" ->
            [panic |-> add32(pos[2]).panic, position |-> <<pos[1], add32(pos[2]).value>>]
      [] direction = "Down" ->
            [panic |-> add32(pos[2]).panic, position |-> <<pos[1], add32(pos[2]).value>>]
      [] direction = "Left" ->
            [panic |-> sub32(pos[1]).panic, position |-> <<sub32(pos[1]).value, pos[2]>>]
      [] direction = "Right" ->
            [panic |-> add32(pos[1]).panic, position |-> <<add32(pos[1]).value, pos[2]>>]

\* translate whose Right arm also moves down.
translate_right_diagonal(pos, direction) ==
    CASE direction = "Up" ->
            [panic |-> sub32(pos[2]).panic, position |-> <<pos[1], sub32(pos[2]).value>>]
      [] direction = "Down" ->
            [panic |-> add32(pos[2]).panic, position |-> <<pos[1], add32(pos[2]).value>>]
      [] direction = "Left" ->
            [panic |-> sub32(pos[1]).panic, position |-> <<sub32(pos[1]).value, pos[2]>>]
      [] direction = "Right" ->
            [panic |-> add32(pos[1]).panic \/ add32(pos[2]).panic,
             position |-> <<add32(pos[1]).value, add32(pos[2]).value>>]

translate(pos, direction) ==
    CASE direction = "Up" ->
            [panic |-> sub32(pos[2]).panic, position |-> <<pos[1], sub32(pos[2]).value>>]
      [] direction = "Down" ->
            [panic |-> add32(pos[2]).panic, position |-> <<pos[1], add32(pos[2]).value>>]
      [] direction = "Left" ->
            [panic |-> sub32(pos[1]).panic, position |-> <<sub32(pos[1]).value, pos[2]>>]
      [] direction = "Right" ->
            [panic |-> add32(pos[1]).panic, position |-> <<add32(pos[1]).value, pos[2]>>]

\* translate applied to a quad on its own, at most MaxMoves times.
QuadTranslate ==
    /\ pc = "quad"
    /\ Len(applied) < MaxMoves
    /\ \E d \in Directions :
          LET t == translate(position, d)
          IN  /\ applied' = Append(applied, Move(d))
              /\ IF t.panic
                 THEN pc' = "panicked" /\ UNCHANGED position
                 ELSE position' = t.position /\ UNCHANGED pc
    /\ UNCHANGED <<callVars, target_fps, overflow_checks, clock, loopVars,
                   current_instant, throttler, duration, keep_running, printed,
                   events, event, commands, origin, arrived, backlog,
                   executed_at, window_frames, counted>>

----------------------------------------------------------------------------
(* App::run: the event source and the frame closure *)

\* The window receives an input event.
EventArrives ==
    /\ pc \in RunningPcs \cup {"new"}
    /\ Len(arrived) < MaxEvents
    /\ \E e \in EventInputs :
          /\ events' = Append(events, e)
          /\ arrived' = Append(arrived, e)
    /\ UNCHANGED <<callVars, pc, target_fps, overflow_checks, clock, loopVars,
                   current_instant, throttler, duration, keep_running, printed,
                   event, commands, origin, position, applied, backlog,
                   executed_at, window_frames, counted>>

\* get_keyboard_command without the Escape arm.
get_keyboard_command_without_escape(key) ==
    CASE key = "Up" -> Move("Up")
      [] key = "Down" -> Move("Down")
      [] key = "Left" -> Move("Left")
      [] key = "Right" -> Move("Right")
      [] OTHER -> None

get_keyboard_command(key) ==
    CASE key = "Escape" -> Quit
      [] key = "Up" -> Move("Up")
      [] key = "Down" -> Move("Down")
      [] key = "Left" -> Move("Left")
      [] key = "Right" -> Move("Right")
      [] OTHER -> None

IsCommandEvent(e) ==
    /\ e.kind = "KeyboardInput"
    /\ e.state = "Released"
    /\ get_keyboard_command(e.key) # None

RECURSIVE PushAll(_, _)
PushAll(evs, cmds) ==
    IF evs = <<>> THEN cmds
    ELSE PushAll(Tail(evs),
                 IF IsCommandEvent(Head(evs))
                 THEN Append(cmds, get_keyboard_command(Head(evs).key))
                 ELSE cmds)

\* process_events draining the event source (`while let` for `if let`).
process_events_draining(evs, cmds) ==
    IF evs = <<>>
    THEN [events |-> evs, event |-> NoEvent, commands |-> cmds]
    ELSE [events |-> <<>>, event |-> evs[Len(evs)],
          commands |-> PushAll(evs, cmds)]

\* process_events that does not look at the key state.
process_events_any_state(evs, cmds) ==
    IF evs = <<>>
    THEN [events |-> evs, event |-> NoEvent, commands |-> cmds]
    ELSE LET e == Head(evs)
         IN  [events |-> Tail(evs),
              event |-> e,
              commands |->
                  IF /\ e.kind = "KeyboardInput"
                     /\ get_keyboard_command(e.key) # None
                  THEN Append(cmds, get_keyboard_command(e.key))
                  ELSE cmds]

\* process_events that calls events.next() a second time.
process_events_pulling_two(evs, cmds) ==
    IF Len(evs) < 2
    THEN [events |-> <<>>,
          event |-> IF evs = <<>> THEN NoEvent ELSE Head(evs),
          commands |-> PushAll(evs, cmds)]
    ELSE [events |-> Tail(Tail(evs)),
          event |-> evs[2],
          commands |-> PushAll(SubSeq(evs, 1, 2), cmds)]

\* process_events: at most one events.next(), at most one push.
process_events(evs, cmds) ==
    IF evs = <<>>
    THEN [events |-> evs, event |-> NoEvent, commands |-> cmds]
    ELSE LET e == Head(evs)
         IN  [events |-> Tail(evs),
              event |-> e,
              commands |->
                  IF /\ e.kind = "KeyboardInput"
                     /\ e.state = "Released"
                     /\ get_keyboard_command(e.key) # None
                  THEN Append(cmds, get_keyboard_command(e.key))
                  ELSE cmds]

\* Line 55 of the closure.
ProcessEvents ==
    /\ pc = "body"
    /\ LET r == process_events(events, commands)
       IN  /\ events' = r.events
           /\ event' = r.event
           /\ commands' = r.commands
    /\ backlog' = IF Len(events) > backlog THEN Len(events) ELSE backlog
    /\ pulls' = pulls + 1
    /\ pc' = "update"
    /\ UNCHANGED <<renders, target_fps, overflow_checks, clock, loopVars,
                   current_instant, throttler, duration, keep_running, printed,
                   origin, position, arrived, applied, executed_at,
                   window_frames, counted>>

\* update_and_keep_running that pops Quit without returning false.
update_and_keep_running_ignoring_quit(cmds, pos) ==
    IF cmds = <<>>
    THEN [keep |-> TRUE, panic |-> FALSE, commands |-> cmds, position |-> pos,
          popped |-> None]
    ELSE LET c == cmds[Len(cmds)]
             rest == SubSeq(cmds, 1, Len(cmds) - 1)
         IN  IF c.type = "Quit"
             THEN [keep |-> TRUE, panic |-> FALSE, commands |-> rest,
                   position |-> pos, popped |-> c]
             ELSE [keep |-> TRUE, panic |-> translate(pos, c.dir).panic,
                   commands |-> rest,
                   position |-> translate(pos, c.dir).position, popped |-> c]

\* update_and_keep_running that stops the loop when there is no command.
update_and_keep_running_stopping_on_empty(cmds, pos) ==
    IF cmds = <<>>
    THEN [keep |-> FALSE, panic |-> FALSE, commands |-> cmds, position |-> pos,
          popped |-> None]
    ELSE LET c == cmds[Len(cmds)]
             rest == SubSeq(cmds, 1, Len(cmds) - 1)
         IN  IF c.type = "Quit"
             THEN [keep |-> FALSE, panic |-> FALSE, commands |-> rest,
                   position |-> pos, popped |-> c]
             ELSE [keep |-> TRUE, panic |-> translate(pos, c.dir).panic,
                   commands |-> rest,
                   position |-> translate(pos, c.dir).position, popped |-> c]

\* update_and_keep_running that reads the last command without removing it.
update_and_keep_running_peeking(cmds, pos) ==
    IF cmds = <<>>
    THEN [keep |-> TRUE, panic |-> FALSE, commands |-> cmds, position |-> pos,
          popped |-> None]
    ELSE LET c == cmds[Len(cmds)]
         IN  IF c.type = "Quit"
             THEN [keep |-> FALSE, panic |-> FALSE, commands |-> cmds,
                   position |-> pos, popped |-> c]
             ELSE [keep |-> TRUE, panic |-> translate(pos, c.dir).panic,
                   commands |-> cmds,
                   position |-> translate(pos, c.dir).position, popped |-> c]

\* update_and_keep_running: the value returned and the effect on the quad.
update_and_keep_running(cmds, pos) ==
    IF cmds = <<>>
    THEN [keep |-> TRUE, panic |-> FALSE, commands |-> cmds, position |-> pos,
          popped |-> None]
    ELSE LET c == cmds[Len(cmds)]
             rest == SubSeq(cmds, 1, Len(cmds) - 1)
         IN  IF c.type = "Quit"
             THEN [keep |-> FALSE, panic |-> FALSE, commands |-> rest,
                   position |-> pos, popped |-> c]
             ELSE [keep |-> TRUE, panic |-> translate(pos, c.dir).panic,
                   commands |-> rest,
                   position |-> translate(pos, c.dir).position, popped |-> c]

\* The closure without the early return: render runs after Quit as well.
UpdateAndKeepRunning_rendering_on_quit ==
    /\ pc = "update"
    /\ LET r == update_and_keep_running(commands, position)
       IN  /\ commands' = r.commands
           /\ applied' = IF r.popped = None THEN applied
                         ELSE Append(applied, r.popped)
           /\ IF r.panic
              THEN /\ pc' = "panicked"
                   /\ UNCHANGED <<position, keep_running>>
              ELSE IF r.keep
              THEN /\ position' = r.position
                   /\ pc' = "render"
                   /\ UNCHANGED keep_running
              ELSE /\ keep_running' = FALSE
                   /\ pc' = "render"
                   /\ UNCHANGED position
    /\ UNCHANGED <<callVars, target_fps, overflow_checks, clock, loopVars,
                   current_instant, throttler, duration, printed, events,
                   event, origin, arrived, backlog, executed_at, window_frames,
                   counted>>

\* Line 56 of the closure.
UpdateAndKeepRunning ==
    /\ pc = "update"
    /\ LET r == update_and_keep_running(commands, position)
       IN  /\ commands' = r.commands
           /\ applied' = IF r.popped = None THEN applied
                         ELSE Append(applied, r.popped)
           /\ IF r.panic
              THEN /\ pc' = "panicked"
                   /\ UNCHANGED <<position, keep_running>>
              ELSE IF r.keep
              THEN /\ position' = r.position
                   /\ pc' = "render"
                   /\ UNCHANGED keep_running
              ELSE /\ keep_running' = FALSE
                   /\ pc' = "returned"
                   /\ UNCHANGED position
    /\ UNCHANGED <<callVars, target_fps, overflow_checks, clock, loopVars,
                   current_instant, throttler, duration, printed, events,
                   event, origin, arrived, backlog, executed_at, window_frames,
                   counted>>

\* Lines 57-59 of the closure: render, then return true.
Render ==
    /\ pc = "render"
    /\ renders' = renders + 1
    /\ keep_running' = TRUE
    /\ pc' = "returned"
    /\ UNCHANGED <<pulls, target_fps, overflow_checks, clock, loopVars,
                   current_instant, throttler, duration, printed, appVars,
                   executed_at, window_frames, counted>>

----------------------------------------------------------------------------
InitCommon ==
    /\ pc = "new"
    /\ clock = 0
    /\ frame_interval = 0
    /\ frame_count = 0
    /\ previous_instant = 0
    /\ previous_second = 0
    /\ current_instant = 0
    /\ throttler = "None"
    /\ duration = 0
    /\ keep_running = TRUE
    /\ printed = -1
    /\ events = <<>>
    /\ event = NoEvent
    /\ commands = <<>>
    /\ origin = <<32, 32>>
    /\ position = <<32, 32>>
    /\ arrived = <<>>
    /\ applied = <<>>
    /\ backlog = 0
    /\ pulls = 0
    /\ renders = 0
    /\ executed_at = 0
    /\ window_frames = 0
    /\ counted = -1

\* GameLoop::new alone, over a range of frame rates.
InitNew ==
    /\ InitCommon
    /\ target_fps \in NewFps
    /\ overflow_checks \in BOOLEAN
NextNew == New
SpecNew == InitNew /\ [][NextNew]_vars

\* GameLoop::new(..).run(f) for an arbitrary closure f.
InitLoop ==
    /\ InitCommon
    /\ target_fps \in LoopFps
    /\ overflow_checks \in BOOLEAN
NextLoop ==
    \/ New
    \/ Tick
    \/ RunSkip
    \/ RunFrame
    \/ LoopOperation
    \/ LoopBreak
    \/ LoopBookkeep
SpecLoop == InitLoop /\ [][NextLoop]_vars

\* The same at 250 frames per second, the highest integer rate whose
\* frame_interval is 4 ms.
InitFast ==
    /\ InitCommon
    /\ target_fps \in FastFps
    /\ overflow_checks \in BOOLEAN
SpecFast == InitFast /\ [][NextLoop]_vars

\* App::run: GameLoop::new(config.frame_rate).run(closure of lines 54-60).
\* At the rates of AppFps and within MaxEvents moves of the origin no
\* arithmetic overflows, so the build profile makes no difference here: the
\* default (debug) profile is taken.
Init ==
    /\ InitCommon
    /\ target_fps \in AppFps
    /\ overflow_checks = TRUE
Next ==
    \/ New
    \/ Tick
    \/ EventArrives
    \/ RunSkip
    \/ RunFrame
    \/ ProcessEvents
    \/ UpdateAndKeepRunning
    \/ Render
    \/ LoopBreak
    \/ LoopBookkeep
Spec == Init /\ [][Next]_vars

\* One event of each outcome of process_events: the quit command, a move
\* command, a key press (of Escape, which is no command) and an event that
\* is not keyboard input.
QuitInputs == {Released("Escape"), Released("Up"), Pressed("Escape"), Closed}

\* The window receives an input event, one of QuitInputs.
QuitInputArrives ==
    /\ pc \in RunningPcs \cup {"new"}
    /\ Len(arrived) < MaxEvents
    /\ \E e \in QuitInputs :
          /\ events' = Append(events, e)
          /\ arrived' = Append(arrived, e)
    /\ UNCHANGED <<callVars, pc, target_fps, overflow_checks, clock, loopVars,
                   current_instant, throttler, duration, keep_running, printed,
                   event, commands, origin, position, applied, backlog,
                   executed_at, window_frames, counted>>

NextFair ==
    \/ New
    \/ Tick
    \/ QuitInputArrives
    \/ RunSkip
    \/ RunFrame
    \/ ProcessEvents
    \/ UpdateAndKeepRunning
    \/ Render
    \/ LoopBreak
    \/ LoopBookkeep

\* App::run on a thread that keeps running: every step of the program that
\* can be taken is taken, and a sleep returns.  Nothing is assumed of the
\* arrival of events nor of the time spent between steps.
FairSpec ==
    /\ Init
    /\ [][NextFair]_vars
    /\ WF_vars(New)
    /\ WF_vars(RunSkip)
    /\ WF_vars(RunFrame)
    /\ WF_vars(ProcessEvents)
    /\ WF_vars(UpdateAndKeepRunning)
    /\ WF_vars(Render)
    /\ WF_vars(LoopBreak)
    /\ WF_vars(LoopBookkeep)

\* Quad::translate alone, from a range of positions.
InitQuad ==
    /\ pc = "quad"
    /\ overflow_checks \in BOOLEAN
    /\ target_fps = 0
    /\ clock = 0
    /\ frame_interval = 0
    /\ frame_count = 0
    /\ previous_instant = 0
    /\ previous_second = 0
    /\ current_instant = 0
    /\ throttler = "None"
    /\ duration = 0
    /\ keep_running = TRUE
    /\ printed = -1
    /\ events = <<>>
    /\ event = NoEvent
    /\ commands = <<>>
    /\ origin \in CoordInputs \X CoordInputs
    /\ position = origin
    /\ arrived = <<>>
    /\ applied = <<>>
    /\ backlog = 0
    /\ pulls = 0
    /\ renders = 0
    /\ executed_at = 0
    /\ window_frames = 0
    /\ counted = -1
NextQuad == QuadTranslate
SpecQuad == InitQuad /\ [][NextQuad]_vars

----------------------------------------------------------------------------
(* Properties *)

\* C1: every executed frame samples an instant at least frame_interval after
\* the instant sampled for the previous executed frame (after construction
\* for the first one).
C1_Throttle ==
    [][(pc = "loop" /\ pc' = "body") =>
           /\ current_instant' = clock
           /\ current_instant' - executed_at >= frame_interval]_vars

C1_Witness ==
    /\ pc = "body"
    /\ frame_interval > 0
    /\ previous_instant > 0
    /\ current_instant - previous_instant >= frame_interval

UpLeftDown == <<Released("Up"), Released("Left"), Released("Down")>>

\* Up, Left, Down were all pending when the first frame pulled an event, and
\* three commands have been applied since.
ThreeQueuedThreeApplied ==
    /\ arrived = UpLeftDown
    /\ backlog = 3
    /\ Len(applied) = 3

\* C2 as stated: with Up, Left, Down queued before three frames execute, the
\* commands are applied in the order Down, Left, Up.
C2_Original ==
    ThreeQueuedThreeApplied =>
        applied = <<Move("Down"), Move("Left"), Move("Up")>>

\* C2 amended: with Up, Left, Down queued before three frames execute, the
\* commands are applied in arrival order Up, Left, Down.
C2_ArrivalOrder ==
    ThreeQueuedThreeApplied =>
        applied = <<Move("Up"), Move("Left"), Move("Down")>>

C2_Witness ==
    /\ ThreeQueuedThreeApplied
    /\ position = <<origin[1] - QuadStep, origin[2]>>

\* C3: for every target_fps > 0 the constructed frame_interval is
\* floor(1000 / target_fps) milliseconds.
C3_Original ==
    (pc = "loop" /\ target_fps > 0) =>
        frame_interval = (MillisPerSecond * Centi) \div target_fps

\* C4: an iteration sampled less than frame_interval after previous_instant
\* does not enter the body and leaves previous_instant, previous_second and
\* frame_count unchanged; those fields change only in the bookkeeping of an
\* executed frame whose body returned true, which sets previous_instant to
\* the sampled instant and counts the frame.
C4_SkipKeepsState ==
    [][/\ (pc = "loop" /\ clock - previous_instant < frame_interval) =>
              /\ pc' = "loop"
              /\ UNCHANGED <<previous_instant, previous_second, frame_count>>
       /\ (/\ pc # "new"
           /\ <<previous_instant, previous_second, frame_count>>' #
                  <<previous_instant, previous_second, frame_count>>) =>
              /\ pc = "returned"
              /\ keep_running
              /\ throttler = "Run"
              /\ previous_instant' = current_instant
              /\ \/ frame_count' = (frame_count + 1) % U8Modulus
                 \/ frame_count' = 0 /\ previous_second' = current_instant
                 \/ pc' = "panicked"]_vars

C4_Witness ==
    /\ pc = "loop"
    /\ throttler = "Skip"
    /\ current_instant - previous_instant < frame_interval
    /\ clock > current_instant

\* C5: once Quit has been popped the callback has returned false, the loop
\* is ending or has ended in that frame, and no command is applied after it.
C5_QuitTerminates ==
    \A i \in 1..Len(applied) :
        applied[i] = Quit =>
            /\ i = Len(applied)
            /\ pc \in {"returned", "done"}
            /\ ~keep_running

C5_Witness ==
    /\ pc = "done"
    /\ Len(applied) >= 2
    /\ applied[Len(applied)] = Quit
    /\ events # <<>>

\* C6: a value is reported exactly when a window is reset, and it is the
\* number of frames executed in that window.
C6_Original == printed = counted

\* C7: the loop ends only by a body that returned false, and that step leaves
\* previous_instant, previous_second and frame_count unchanged.
C7_Original ==
    [][(pc \in RunningPcs /\ pc' \notin RunningPcs) =>
           /\ pc = "returned"
           /\ ~keep_running
           /\ UNCHANGED <<previous_instant, previous_second, frame_count>>]_vars

InRange(v) == v >= I32Min + QuadStep /\ v <= I32Max - QuadStep

Inverse(d) ==
    CASE d = "Up" -> "Down"
      [] d = "Down" -> "Up"
      [] d = "Left" -> "Right"
      [] d = "Right" -> "Left"

\* p is o moved by exactly 32 pixels in direction d.
MovedBy32(o, p, d) ==
    CASE d = "Up" -> p[1] = o[1] /\ o[2] >= I32Min + QuadStep /\ p[2] = o[2] - QuadStep
      [] d = "Down" -> p[1] = o[1] /\ o[2] <= I32Max - QuadStep /\ p[2] = o[2] + QuadStep
      [] d = "Left" -> p[2] = o[2] /\ o[1] >= I32Min + QuadStep /\ p[1] = o[1] - QuadStep
      [] d = "Right" -> p[2] = o[2] /\ o[1] <= I32Max - QuadStep /\ p[1] = o[1] + QuadStep

RoundTrip ==
    /\ Len(applied) = 1 =>
           /\ pc # "panicked"
           /\ MovedBy32(origin, position, applied[1].dir)
    /\ (Len(applied) = 2 /\ applied[2].dir = Inverse(applied[1].dir)) =>
           /\ pc # "panicked"
           /\ position = origin

IsMiss(e) ==
    /\ e.kind # "None"
    /\ \/ e.kind # "KeyboardInput"
       \/ e.state # "Released"
       \/ e.key \notin {"Escape", "Up", "Down", "Left", "Right"}

\* C9: a frame that consumes a miss pushes nothing, applies nothing, leaves
\* the position unchanged and returns true.
C9_MissAbsorbed ==
    [][/\ (pc = "body" /\ pc' # "body" /\ events # <<>> /\ IsMiss(Head(events))) =>
              /\ event' = Head(events)
              /\ commands' = commands
              /\ pc' = "update"
       /\ (pc = "update" /\ pc' # "update" /\ IsMiss(event)) =>
              /\ position' = position
              /\ applied' = applied
              /\ commands' = commands
              /\ pc' = "render"
       /\ (pc = "render" /\ pc' # "render" /\ IsMiss(event)) =>
              /\ pc' = "returned"
              /\ keep_running']_vars

C9_Witness ==
    /\ pc = "loop"
    /\ throttler = "Run"
    /\ IsMiss(event)
    /\ applied = <<>>
    /\ position = origin
    /\ previous_instant = current_instant

\* C10: construction fails for target_fps <= 0 and succeeds for every
\* target_fps > 0.
C10_Original ==
    pc # "new" =>
        /\ target_fps <= 0 => pc = "panicked"
        /\ target_fps > 0 => pc = "loop"

\* Number of events taken from the event source so far.
Consumed == Len(arrived) - Len(events)

LastOf(q) == q[Len(q)]

\* C11: a frame leaves the first line of the closure by exactly one pull,
\* which takes the oldest pending event or nothing; no other step takes an
\* event, a skipped iteration included; so the events consumed never
\* outnumber the frames, and what is pending is the rest of the arrivals in
\* arrival order.
C11_OnePullPerFrame ==
    /\ [](/\ Consumed <= pulls
          /\ events = SubSeq(arrived, Consumed + 1, Len(arrived)))
    /\ [][/\ (pc = "loop" /\ pc' = "body") => pulls' = pulls /\ events' = events
          /\ (pc = "body" /\ pc' # "body") =>
                 /\ pc' = "update"
                 /\ pulls' = pulls + 1
                 /\ IF events = <<>>
                    THEN events' = <<>> /\ event' = NoEvent
                    ELSE events' = Tail(events) /\ event' = Head(events)
          /\ pulls' # pulls => (pc = "body" /\ throttler = "Run")
          /\ Len(events') < Len(events) => pc = "body"
          /\ (pc = "loop" /\ pc' = "loop") =>
                 /\ pulls' = pulls
                 /\ Len(events') >= Len(events)]_vars

C11_Witness ==
    /\ pc = "update"
    /\ pulls = 2
    /\ Consumed = 1
    /\ Len(events) = 2

\* C12: with an empty queue the dispatch changes neither the position nor
\* the queue and applies nothing, the frame goes on to render, and the
\* closure returns true.
C12_EmptyQueueNoOp ==
    [][/\ (pc = "update" /\ pc' # "update" /\ commands = <<>>) =>
              /\ position' = position
              /\ commands' = <<>>
              /\ applied' = applied
              /\ pc' = "render"
       /\ (pc = "render" /\ pc' # "render" /\ event = NoEvent) =>
              /\ renders' = renders + 1
              /\ keep_running'
              /\ pc' = "returned"]_vars

C12_Witness ==
    /\ pc = "loop"
    /\ throttler = "Run"
    /\ event = NoEvent
    /\ renders = 1
    /\ previous_instant = current_instant
    /\ position = origin

\* C13: the queue holds at most one command, and none outside the dispatch
\* step; the commands applied, followed by the one waiting to be applied,
\* are the commands of the events consumed, in arrival order.
C13_NoBacklog ==
    /\ Len(commands) <= 1
    /\ pc # "update" => commands = <<>>
    /\ applied \o commands = PushAll(SubSeq(arrived, 1, Consumed), <<>>)

C13_Witness ==
    /\ pc = "update"
    /\ Len(commands) = 1
    /\ Len(applied) = 1
    /\ Len(events) = 1

\* C14: the position changes only in the dispatch of a popped Move, which is
\* recorded once and moves the position by 32 in its direction on one axis;
\* and every popped Move does so.
C14_MoveOneAxis ==
    [][/\ position' # position =>
              /\ pc = "update"
              /\ commands # <<>>
              /\ LastOf(commands).type = "Move"
       /\ (pc = "update" /\ pc' # "update" /\ commands # <<>>
               /\ LastOf(commands).type = "Move") =>
              /\ MovedBy32(position, position', LastOf(commands).dir)
              /\ applied' = Append(applied, LastOf(commands))]_vars

C14_Witness ==
    /\ applied = <<Move("Right"), Move("Up")>>
    /\ position = <<origin[1] + QuadStep, origin[2] - QuadStep>>

QuitPopped == \E i \in 1..Len(applied) : applied[i] = Quit

\* C18: popping Quit renders nothing, moves nothing and makes the closure
\* return false at once; a render happens only in a frame whose dispatch did
\* not pop Quit and makes that frame return true; so the renders are as many
\* as the frames that returned true: every frame begun, less the one in
\* progress and the one that popped Quit.
C18_NoRenderOnQuit ==
    /\ [](renders = pulls - (IF pc \in {"update", "render"} THEN 1 ELSE 0)
                          - (IF QuitPopped THEN 1 ELSE 0))
    /\ [][/\ (pc = "update" /\ pc' # "update" /\ commands # <<>>
                  /\ LastOf(commands) = Quit) =>
                 /\ renders' = renders
                 /\ position' = position
                 /\ ~keep_running'
                 /\ pc' = "returned"
          /\ renders' # renders =>
                 /\ renders' = renders + 1
                 /\ pc = "render"
                 /\ ~QuitPopped
                 /\ keep_running'
                 /\ pc' = "returned"
          /\ (pc # "returned" /\ pc' = "returned" /\ keep_running') =>
                 renders' = renders + 1]_vars

C18_Witness ==
    /\ pc = "done"
    /\ QuitPopped
    /\ pulls = 3
    /\ renders = 2
    /\ position # origin

\* C15: the duration handed to the body is the sampled instant minus
\* previous_instant, which is the instant of the last executed frame (of
\* construction before the first), and it is at least frame_interval.
C15_DurationIsElapsed ==
    /\ [](pc \in {"body", "returned"} =>
              /\ duration = current_instant - previous_instant
              /\ duration >= frame_interval)
    /\ [][(pc = "loop" /\ pc' = "body") =>
              /\ previous_instant = executed_at
              /\ duration' = current_instant' - executed_at]_vars

C15_Witness ==
    /\ pc = "body"
    /\ previous_instant > 0
    /\ frame_interval > 0
    /\ duration > frame_interval

\* C16: once an iteration has taken the throttle branch, the clock has
\* reached previous_instant + frame_interval, and the next iteration that
\* samples the clock runs the frame.
C16_SkipThenRun ==
    /\ []((pc = "loop" /\ throttler = "Skip") =>
              clock - previous_instant >= frame_interval)
    /\ [][(pc = "loop" /\ throttler = "Skip"
               /\ current_instant' # current_instant) =>
              /\ throttler' = "Run"
              /\ pc' = "body"]_vars

C16_Witness ==
    /\ pc = "loop"
    /\ throttler = "Skip"
    /\ frame_interval > 0
    /\ previous_instant > 0
    /\ current_instant - previous_instant < frame_interval
    /\ clock - previous_instant >= frame_interval

RECURSIVE IndexFrom(_, _, _)
\* Index of the first occurrence of e in q at or after i, 0 if there is none.
IndexFrom(q, e, i) ==
    IF i > Len(q) THEN 0
    ELSE IF q[i] = e THEN i
    ELSE IndexFrom(q, e, i + 1)

\* k such that the k-th event is the first Escape release, 0 if there is none.
FirstEscape == IndexFrom(arrived, Released("Escape"), 1)

EscapePending ==
    /\ pc \in RunningPcs \cup {"new"}
    /\ IndexFrom(events, Released("Escape"), 1) # 0

\* No further frame can start within the time span of the model.
HorizonReached ==
    /\ pc = "loop"
    /\ clock - previous_instant < frame_interval
    /\ previous_instant + frame_interval > MaxTime

\* C17 as stated: the loop ends only if an Escape release arrived, and when
\* the first one is the k-th event it ends during the k-th executed frame.
C17_Original ==
    pc = "done" =>
        /\ FirstEscape # 0
        /\ pulls = FirstEscape

\* C17 amended: the loop ends only if an Escape release arrived, and when the
\* first one is the k-th event it ends during the frame that pulls the k-th
\* event, the k-th executed frame or a later one; on a thread that keeps
\* running, a pending Escape release leads to the end of the loop, unless
\* the time span of the model ends with that event still pending.
C17_QuitLiveness ==
    /\ [](pc = "done" =>
              /\ FirstEscape # 0
              /\ Consumed = FirstEscape
              /\ pulls >= FirstEscape
              /\ event = Released("Escape"))
    /\ [](FirstEscape = 0 => pc \in RunningPcs \cup {"new"})
    /\ (EscapePending ~> (pc = "done" \/ (HorizonReached /\ EscapePending)))

C17_Witness ==
    /\ pc = "done"
    /\ FirstEscape = 1
    /\ pulls = 2

\* C19: with a frame_interval of at least 4 ms the counter holds the number
\* of frames of the window, which stays below 256, and the increment never
\* overflows.
C19_NoOverflow ==
    (pc # "new" /\ frame_interval >= 4) =>
        /\ pc # "panicked"
        /\ window_frames < U8Modulus
        /\ frame_count = window_frames

C19_Witness ==
    /\ frame_interval = 4
    /\ pc = "loop"
    /\ printed = 251
    /\ frame_count = 0

====
